---------------------------- MODULE Spec2Model ----------------------------
(***************************************************************************)
(* Veritech: the Jigsaw Protocol engine (JigsawProtocolEngine,             *)
(* src/shared/types/index.ts) and the CVK 1100 truth engine                *)
(* (CVK1100Engine, src/unnamed/part_003).                                  *)
(*                                                                         *)
(* Conventions of the model                                                *)
(*  - weights are kept in tenths (weight 78.5 is 785), because the code    *)
(*    adds confidence / 10 to the weight;                                  *)
(*  - a JavaScript number that is the result of a division is kept as a    *)
(*    fraction [num, den]; den = 0 is the NaN that 0 / 0 produces;         *)
(*  - a cryptographic digest is modelled by the tuple of the data it is    *)
(*    computed from (two digests are equal iff their inputs are equal);    *)
(*  - crypto.randomUUID() identifiers of components are modelled by the    *)
(*    index of the component in picture.components (they are unique).      *)
(***************************************************************************)
EXTENDS Integers, Sequences, FiniteSets, TLC

\* ------------------------------------------------------------------------
\* Bounds of the model
\* ------------------------------------------------------------------------
MaxFragments == 3

MaxTicks == 1

MaxInputs == 2

MaxVerified == 11

MaxUnverified == 1

VARIABLES
    \* --- JigsawProtocolEngine.processFragments ---
    pc,                   \* position inside processFragments
    fragments,            \* the argument: TruthFragment[]
    now,                  \* the millisecond clock read by new Date()
    verifiedFragments,    \* result of filterVerifiedFragments
    components,           \* the component objects (index = identity)
    unplacedComponents,   \* array of references, shared by picture and assembled
    placedComponents,     \* array of references, shared by picture and assembled
    iterations,           \* loop counter of assemblePicture
    maxIterations,        \* loop budget of assemblePicture
    completionPercentage, \* fraction [num, den]
    gaps,                 \* picture.gaps
    conclusions,          \* picture.conclusions
    courtReady,           \* picture.courtReady
    humanReviewRequired,  \* picture.humanReviewRequired
    result,               \* the JigsawResult returned
    \* --- CVK1100Engine.processInputs ---
    cvkPc,                \* position inside processInputs
    inputs,               \* the argument: RawInput[]
    cvkNow,               \* the clock read by new Date() and Date.now()
    results,              \* the local results: VerificationResult[]
    reviewItems,          \* the local humanReviewRequired: HumanReviewItem[]
    cvkResult,            \* the CVK1100Result returned
    clockReads,           \* per input, the three values new Date() / Date.now() gave
    \* --- CombinedEngine.processCase ---
    casePc,               \* position inside processCase
    caseResult            \* the CombinedEngineResult returned

jigsawVars == <<pc, fragments, now, verifiedFragments, components,
                unplacedComponents, placedComponents, iterations,
                maxIterations, completionPercentage, gaps, conclusions,
                courtReady, humanReviewRequired, result>>

cvkVars == <<cvkPc, inputs, cvkNow, results, reviewItems, cvkResult,
             clockReads>>

caseVars == <<casePc, caseResult>>

vars == <<jigsawVars, cvkVars, caseVars>>

\* ------------------------------------------------------------------------
\* Generic helpers
\* ------------------------------------------------------------------------
Range(s) == {s[i] : i \in 1..Len(s)}

RECURSIVE SeqsUpTo(_, _)
SeqsUpTo(S, n) ==
    IF n = 0 THEN {<<>>}
    ELSE LET shorter == SeqsUpTo(S, n - 1)
         IN  shorter \cup {Append(s, x) : s \in {t \in shorter : Len(t) = n - 1}, x \in S}

Min(a, b) == IF a <= b THEN a ELSE b

Max(a, b) == IF a >= b THEN a ELSE b

\* Math.ceil(a / b) for integers a >= 0, b > 0
CeilDiv(a, b) == (a + b - 1) \div b

\* a JavaScript number held as a fraction; 0 / 0 is NaN
Frac(n, d) == [num |-> n, den |-> d]

IsNaN(v) == v.den = 0

\* lo <= v /\ v <= hi as JavaScript evaluates it: false when v is NaN
FracBetween(v, lo, hi) == v.den > 0 /\ lo * v.den <= v.num /\ v.num <= hi * v.den

\* v >= k as JavaScript evaluates it: false when v is NaN
FracGeq(v, k) == v.den > 0 /\ v.num >= k * v.den

NoPosition == [isNull |-> TRUE]

\* ------------------------------------------------------------------------
\* Input fragments
\* ------------------------------------------------------------------------
Frag(id, type, content, level, conf, custody, real, true, needed) ==
    [id |-> id, type |-> type, content |-> content,
     verificationLevel |-> level, confidence |-> conf, timestamp |-> 0,
     chainOfCustody |-> custody, isReal |-> real, isTrue |-> true,
     isNeeded |-> needed]

\* The fragments a caller may pass.  TF-2 and TF-3 have the same content;
\* TF-3 is a light piece of low complexity; the last four fail one gate each.
FragmentPool ==
    { Frag("TF-1", "survivor_testimony", "A", 9, 95, 1, TRUE, TRUE, TRUE),
      Frag("TF-2", "location_data",      "B", 7, 85, 0, TRUE, TRUE, TRUE),
      Frag("TF-3", "temporal_marker",    "B", 5, 50, 0, TRUE, TRUE, TRUE),
      Frag("TF-4", "relationship_link",  "C", 5, 50, 0, TRUE, TRUE, TRUE),
      Frag("TF-5", "financial_trace",    "D", 9, 95, 1, TRUE, TRUE, TRUE),
      Frag("TF-6", "document_artifact",  "E", 3, 85, 1, TRUE, TRUE, TRUE),
      Frag("TF-7", "document_artifact",  "E", 7, 85, 1, FALSE, TRUE, TRUE),
      Frag("TF-8", "physical_evidence",  "F", 8, 90, 1, TRUE, FALSE, TRUE),
      Frag("TF-9", "document_artifact",  "G", 6, 60, 1, TRUE, TRUE, FALSE) }
\* the gate without its verification-level clause
PassesGateNoLevel(f) ==
    /\ f.isReal = TRUE
    /\ f.isTrue = TRUE
    /\ f.isNeeded = TRUE

\* ------------------------------------------------------------------------
\* Steps 1-2: filter and compress
\* ------------------------------------------------------------------------
PassesGate(f) ==
    /\ f.isReal = TRUE
    /\ f.isTrue = TRUE
    /\ f.isNeeded = TRUE
    /\ f.verificationLevel >= 5

filterVerifiedFragments(frags) == SelectSeq(frags, PassesGate)

determineTopology(fragment) ==
    CASE fragment.type = "temporal_marker"    -> "edge"
      [] fragment.type = "location_data"      -> "corner"
      [] fragment.type = "relationship_link"  -> "bridge"
      [] fragment.type = "financial_trace"    -> "interior"
      [] fragment.type = "survivor_testimony" -> "keystone"
      [] OTHER                                -> "interior"

\* complexity = min(10, ceil((level + confidence / 10) / 2))
generateShape(fragment) ==
    [topology |-> determineTopology(fragment),
     complexity |-> Min(10, CeilDiv(10 * fragment.verificationLevel + fragment.confidence, 20)),
     symmetry |-> fragment.type \in {"temporal_marker", "location_data"},
     uniqueIdentifier |-> <<fragment.id, fragment.content, fragment.timestamp>>]

\* in tenths
calculateWeight(fragment) ==
    Min(1000,
        fragment.verificationLevel * 100
        + fragment.confidence
        + (IF fragment.type = "survivor_testimony" THEN 200 ELSE 0)
        + (IF fragment.type = "physical_evidence" THEN 150 ELSE 0)
        + (IF fragment.type = "document_artifact" THEN 100 ELSE 0)
        + (IF fragment.chainOfCustody > 0 THEN 50 ELSE 0))

\* sha256 of JSON.stringify({fragment, shape, timestamp: new Date()})
hashComponent(fragment, shape, t) == <<fragment, shape, t>>

compressFragment(fragment, id, t) ==
    [id |-> id,
     fragmentId |-> fragment.id,
     shape |-> generateShape(fragment),
     edges |-> <<>>,
     weight |-> calculateWeight(fragment),
     position |-> NoPosition,
     locked |-> FALSE,
     hash |-> hashComponent(fragment, generateShape(fragment), t)]

\* ------------------------------------------------------------------------
\* Step 3: edges
\* ------------------------------------------------------------------------
Directions == <<"north", "south", "east", "west", "temporal", "causal">>

Abs(x) == IF x < 0 THEN -x ELSE x

\* the rules without the one for the temporal direction
shapesCanConnectNoTemporal(shape1, shape2, direction) ==
    IF shape1.topology = "corner" /\ shape2.topology = "edge" THEN TRUE
    ELSE IF shape1.topology = "edge" /\ shape2.topology = "interior" THEN TRUE
    ELSE IF shape1.topology = "bridge" \/ shape2.topology = "bridge" THEN TRUE
    ELSE IF shape1.topology = "keystone" /\ shape2.complexity >= 7 THEN TRUE
    ELSE IF shape1.topology = "interior" /\ shape2.topology = "interior" THEN TRUE
    ELSE IF direction = "causal"
         THEN Abs(shape1.complexity - shape2.complexity) <= 2
    ELSE FALSE

shapesCanConnect(shape1, shape2, direction) ==
    IF shape1.topology = "corner" /\ shape2.topology = "edge" THEN TRUE
    ELSE IF shape1.topology = "edge" /\ shape2.topology = "interior" THEN TRUE
    ELSE IF shape1.topology = "bridge" \/ shape2.topology = "bridge" THEN TRUE
    ELSE IF shape1.topology = "keystone" /\ shape2.complexity >= 7 THEN TRUE
    ELSE IF shape1.topology = "interior" /\ shape2.topology = "interior" THEN TRUE
    ELSE IF direction = "temporal" THEN TRUE
    ELSE IF direction = "causal"
         THEN Abs(shape1.complexity - shape2.complexity) <= 2
    ELSE FALSE

\* the ids of the other components, in array order, split by compatibility
findCompatibleComponents(component, direction, allComponents, currentIndex) ==
    LET others == SelectSeq([i \in 1..Len(allComponents) |-> i],
                            LAMBDA i : i # currentIndex)
        ok(i)  == shapesCanConnect(component.shape, allComponents[i].shape, direction)
        ids(s) == [k \in 1..Len(s) |-> allComponents[s[k]].id]
    IN  [compatible   |-> ids(SelectSeq(others, ok)),
         incompatible |-> ids(SelectSeq(others, LAMBDA i : ~ok(i)))]

calculateEdgeStrength(component, direction) ==
    Min(100,
        50
        + (IF direction = "temporal" THEN 20 ELSE 0)
        + (IF direction = "causal" THEN 25 ELSE 0)
        + component.shape.complexity * 3
        + (IF ~component.shape.symmetry THEN 10 ELSE 0))

\* md5 of `${component.id}-${direction}-${shape.uniqueIdentifier}`
generateEdgePattern(component, direction) ==
    <<component.id, direction, component.shape.uniqueIdentifier>>

calculateEdges(component, allComponents, currentIndex) ==
    [k \in 1..Len(Directions) |->
        LET direction == Directions[k]
            found == findCompatibleComponents(component, direction,
                                              allComponents, currentIndex)
        IN  [direction |-> direction,
             pattern |-> generateEdgePattern(component, direction),
             compatibleWith |-> found.compatible,
             incompatibleWith |-> found.incompatible,
             strength |-> calculateEdgeStrength(component, direction)]]

engineerEdges(comps) ==
    [index \in 1..Len(comps) |->
        [comps[index] EXCEPT !.edges = calculateEdges(comps[index], comps, index)]]

\* ------------------------------------------------------------------------
\* Steps 4-5: the picture and its assembly
\* ------------------------------------------------------------------------
RECURSIVE Flatten(_)
Flatten(ss) == IF ss = <<>> THEN <<>> ELSE Head(ss) \o Flatten(Tail(ss))

Contains(s, x) == \E i \in 1..Len(s) : s[i] = x
\* an unstable sort: a component goes in front of those of equal weight
RECURSIVE InsertByWeightUnstable(_, _, _)
InsertByWeightUnstable(sorted, c, comps) ==
    IF sorted = <<>> THEN <<c>>
    ELSE IF comps[Head(sorted)].weight > comps[c].weight
         THEN <<Head(sorted)>> \o InsertByWeightUnstable(Tail(sorted), c, comps)
         ELSE <<c>> \o sorted

\* insert reference c behind every reference whose weight is >= its own
RECURSIVE InsertByWeight(_, _, _)
InsertByWeight(sorted, c, comps) ==
    IF sorted = <<>> THEN <<c>>
    ELSE IF comps[Head(sorted)].weight >= comps[c].weight
         THEN <<Head(sorted)>> \o InsertByWeight(Tail(sorted), c, comps)
         ELSE <<c>> \o sorted

\* Array.prototype.sort((a, b) => b.weight - a.weight): stable, descending
RECURSIVE SortByWeight(_, _)
SortByWeight(refs, comps) ==
    IF refs = <<>> THEN <<>>
    ELSE InsertByWeight(SortByWeight(SubSeq(refs, 1, Len(refs) - 1), comps),
                        refs[Len(refs)], comps)

\* the neighbour if the switch had no case for the causal direction
calculateAdjacentPositionNoCausal(pos, direction) ==
    CASE direction = "north"    -> [pos EXCEPT !.y = pos.y + 1, !.confidence = 90]
      [] direction = "south"    -> [pos EXCEPT !.y = pos.y - 1, !.confidence = 90]
      [] direction = "east"     -> [pos EXCEPT !.x = pos.x + 1, !.confidence = 90]
      [] direction = "west"     -> [pos EXCEPT !.x = pos.x - 1, !.confidence = 90]
      [] direction = "temporal" -> [pos EXCEPT !.z = pos.z + 1, !.confidence = 85]
      [] OTHER                  -> [pos EXCEPT !.confidence = 70]

calculateAdjacentPosition(pos, direction) ==
    CASE direction = "north"    -> [pos EXCEPT !.y = pos.y + 1, !.confidence = 90]
      [] direction = "south"    -> [pos EXCEPT !.y = pos.y - 1, !.confidence = 90]
      [] direction = "east"     -> [pos EXCEPT !.x = pos.x + 1, !.confidence = 90]
      [] direction = "west"     -> [pos EXCEPT !.x = pos.x - 1, !.confidence = 90]
      [] direction = "temporal" -> [pos EXCEPT !.z = pos.z + 1, !.confidence = 85]
      [] direction = "causal"   -> [pos EXCEPT !.z = pos.z - 1, !.confidence = 85]
      [] OTHER                  -> [pos EXCEPT !.confidence = 70]

Origin == [x |-> 0, y |-> 0, z |-> 0, rotation |-> 0, confidence |-> 100]

\* the candidates in the order the two nested loops push them;
\* score = edge.strength * (component.weight / 100), here times 1000
compatiblePlacements(component, placed, comps) ==
    Flatten([p \in 1..Len(placed) |->
        LET hits == SelectSeq(component.edges,
                        LAMBDA edge : Contains(edge.compatibleWith, comps[placed[p]].id))
        IN  [k \in 1..Len(hits) |->
                [position |-> calculateAdjacentPosition(comps[placed[p]].position,
                                                        hits[k].direction),
                 score |-> hits[k].strength * component.weight]]])

\* the choice if the candidates were not sorted by score
findBestPositionUnsorted(component, placed, comps) ==
    IF Len(placed) = 0 THEN Origin
    ELSE LET cands == compatiblePlacements(component, placed, comps)
         IN  IF Len(cands) = 0 THEN NoPosition
             ELSE cands[1].position

\* the stable descending sort puts the first candidate of maximal score first
findBestPosition(component, placed, comps) ==
    IF Len(placed) = 0 THEN Origin
    ELSE LET cands == compatiblePlacements(component, placed, comps)
         IN  IF Len(cands) = 0 THEN NoPosition
             ELSE LET best == CHOOSE i \in 1..Len(cands) :
                                /\ \A j \in 1..Len(cands) : cands[j].score <= cands[i].score
                                /\ \A j \in 1..(i - 1) : cands[j].score < cands[i].score
                  IN  cands[best].position
\* the iteration if the position object of the first placed component were
\* shared with the component being placed
assembleIterationAliased(comps, unplaced, placed) ==
    LET c == unplaced[1]
        position == findBestPosition(comps[c], placed, comps)
        moved == [comps EXCEPT ![c].position = position, ![c].locked = TRUE]
    IN  IF position # NoPosition
        THEN [components |-> IF Len(placed) = 0 THEN moved
                             ELSE [moved EXCEPT ![placed[1]].position = position],
              placedComponents |-> Append(placed, c),
              unplacedComponents |-> Tail(unplaced)]
        ELSE [components |-> comps,
              placedComponents |-> placed,
              unplacedComponents |-> Append(Tail(unplaced), unplaced[1])]

\* the iteration if a placed component were left at the head of the queue
assembleIterationNoShift(comps, unplaced, placed) ==
    LET c == unplaced[1]
        position == findBestPosition(comps[c], placed, comps)
    IN  IF position # NoPosition
        THEN [components |-> [comps EXCEPT ![c].position = position,
                                           ![c].locked = TRUE],
              placedComponents |-> Append(placed, c),
              unplacedComponents |-> unplaced]
        ELSE [components |-> comps,
              placedComponents |-> placed,
              unplacedComponents |-> Append(Tail(unplaced), unplaced[1])]

\* the iteration if a placed component were not locked
assembleIterationNoLock(comps, unplaced, placed) ==
    LET c == unplaced[1]
        position == findBestPosition(comps[c], placed, comps)
    IN  IF position # NoPosition
        THEN [components |-> [comps EXCEPT ![c].position = position],
              placedComponents |-> Append(placed, c),
              unplacedComponents |-> Tail(unplaced)]
        ELSE [components |-> comps,
              placedComponents |-> placed,
              unplacedComponents |-> Append(Tail(unplaced), unplaced[1])]

\* one iteration of the while loop of assemblePicture
assembleIteration(comps, unplaced, placed) ==
    LET c == unplaced[1]
        position == findBestPosition(comps[c], placed, comps)
    IN  IF position # NoPosition
        THEN [components |-> [comps EXCEPT ![c].position = position,
                                           ![c].locked = TRUE],
              placedComponents |-> Append(placed, c),
              unplacedComponents |-> Tail(unplaced)]
        ELSE [components |-> comps,
              placedComponents |-> placed,
              unplacedComponents |-> Append(Tail(unplaced), unplaced[1])]

\* (placedComponents.length / components.length) * 100
calculateCompletion(placed, comps) == Frac(Len(placed) * 100, Len(comps))

\* ------------------------------------------------------------------------
\* Steps 6-8: gaps, conclusions, readiness
\* ------------------------------------------------------------------------
oppositeDirection(direction) ==
    CASE direction = "north" -> "south"
      [] direction = "south" -> "north"
      [] direction = "east"  -> "west"
      [] direction = "west"  -> "east"
      [] OTHER               -> direction

\* the test if a connection needed a listed component on the adjacent
\* coordinate
hasConnectionAdjacent(component, edge, placed, comps) ==
    \E p \in 1..Len(placed) :
        /\ comps[placed[p]].id # component.id
        /\ Contains(edge.compatibleWith, comps[placed[p]].id)
        /\ LET want == calculateAdjacentPosition(component.position, edge.direction)
               at == comps[placed[p]].position
           IN  at.x = want.x /\ at.y = want.y /\ at.z = want.z

hasConnection(component, edge, placed, comps) ==
    \E p \in 1..Len(placed) :
        /\ comps[placed[p]].id # component.id
        /\ Contains(edge.compatibleWith, comps[placed[p]].id)

identifyGaps(placed, comps) ==
    Flatten([p \in 1..Len(placed) |->
        LET component == comps[placed[p]]
            open == SelectSeq(component.edges,
                        LAMBDA edge : /\ ~hasConnection(component, edge, placed, comps)
                                      /\ Len(edge.compatibleWith) > 0)
        IN  [k \in 1..Len(open) |->
                [component |-> component.id,
                 direction |-> open[k].direction,
                 location |-> calculateAdjacentPosition(component.position,
                                                        open[k].direction),
                 requiredDirection |-> oppositeDirection(open[k].direction),
                 priority |-> CeilDiv(component.weight, 100)]]])

WeightAtLeast(placed, comps, w) ==
    SelectSeq(placed, LAMBDA c : comps[c].weight >= w)

\* the conclusions if the finding used the weight threshold 70
drawConclusionsSeventy(completion, gapList, placed, comps) ==
    (IF FracGeq(completion, 90)
     THEN <<[type |-> "certainty", confidence |-> completion, courtReady |-> TRUE,
             supportingComponents |-> placed]>>
     ELSE <<>>)
    \o
    (IF Len(gapList) > 0
     THEN <<[type |-> "recommendation", confidence |-> Frac(100, 1),
             courtReady |-> FALSE, supportingComponents |-> <<>>]>>
     ELSE <<>>)
    \o
    (IF Len(WeightAtLeast(placed, comps, 700)) >= 3
     THEN <<[type |-> "finding", confidence |-> Frac(95, 1), courtReady |-> TRUE,
             supportingComponents |-> WeightAtLeast(placed, comps, 700)]>>
     ELSE <<>>)

drawConclusions(completion, gapList, placed, comps) ==
    (IF FracGeq(completion, 90)
     THEN <<[type |-> "certainty", confidence |-> completion, courtReady |-> TRUE,
             supportingComponents |-> placed]>>
     ELSE <<>>)
    \o
    (IF Len(gapList) > 0
     THEN <<[type |-> "recommendation", confidence |-> Frac(100, 1),
             courtReady |-> FALSE, supportingComponents |-> <<>>]>>
     ELSE <<>>)
    \o
    (IF Len(WeightAtLeast(placed, comps, 800)) >= 3
     THEN <<[type |-> "finding", confidence |-> Frac(95, 1), courtReady |-> TRUE,
             supportingComponents |-> WeightAtLeast(placed, comps, 800)]>>
     ELSE <<>>)

CourtReadyConclusions(concl) == SelectSeq(concl, LAMBDA c : c.courtReady)

\* the assessment if two components of weight >= 70 were enough
assessCourtReadyTwo(completion, concl, placed, comps) ==
    /\ FracGeq(completion, 80)
    /\ Len(CourtReadyConclusions(concl)) >= 1
    /\ Len(WeightAtLeast(placed, comps, 700)) >= 2

assessCourtReady(completion, concl, placed, comps) ==
    /\ FracGeq(completion, 80)
    /\ Len(CourtReadyConclusions(concl)) >= 1
    /\ Len(WeightAtLeast(placed, comps, 700)) >= 3

assessHumanReview(completion, concl) ==
    \/ \E i \in 1..Len(concl) : concl[i].type = "certainty"
    \/ FracGeq(completion, 95)

\* (completion / 100) * 40 + courtReadyRatio * 30 + highWeightRatio * 20
\* + (10 if no gaps), then Math.min(100, score); NaN stays NaN
calculateCourtReadiness(completion, concl, placed, comps, gapList) ==
    LET a == Len(CourtReadyConclusions(concl))
        b == Max(1, Len(concl))
        c == Len(WeightAtLeast(placed, comps, 700))
        d == Max(1, Len(placed))
        g == IF Len(gapList) = 0 THEN 10 ELSE 0
        den == 100 * completion.den * b * d
        num == 40 * completion.num * b * d
               + 30 * a * 100 * completion.den * d
               + 20 * c * 100 * completion.den * b
               + g * den
    IN  IF den > 0 /\ num > 100 * den THEN Frac(100, 1) ELSE Frac(num, den)

\* ------------------------------------------------------------------------
\* CVK 1100: the raw inputs
\*
\* Time is counted in days since 1 January 1900, so getFullYear() >= 1900
\* is timestamp >= 0.  The content of an input is described by its length
\* and by whether one of the actionablePatterns matches it.  Confidences of
\* reality checks are kept in tenths (content.length / 10 is not integral).
\* ------------------------------------------------------------------------
caseContext ==
    [caseId |-> "CASE-001", caseType |-> "fraud", startDate |-> 45000,
     jurisdictions |-> <<"IE", "UK">>]

Provenance(v, u) == [i \in 1..(v + u) |-> [verified |-> (i <= v)]]

Input(source, sourceType, length, identifiers, timestamp, jurisdiction, v, u) ==
    [source |-> source, sourceType |-> sourceType,
     content |-> [length |-> length, identifiers |-> identifiers],
     timestamp |-> timestamp, jurisdiction |-> jurisdiction,
     provenance |-> Provenance(v, u)]

\* every combination of the features the checks look at; the clock starts at
\* day 46000, so the timestamps are: before 1900, before the case, inside the
\* case but older than a year, recent, and one day ahead of the clock
RawInputs ==
    { Input(source, sourceType, content[1], content[2], timestamp, jurisdiction, v, u) :
        source \in {"", "Registry"},
        sourceType \in {"financial_record", "witness_statement", "unknown_type"},
        content \in {<<0, FALSE>>, <<11, FALSE>>, <<40, TRUE>>, <<2000, TRUE>>},
        timestamp \in {-1, 44000, 45200, 45990, 46001},
        jurisdiction \in {"IE", "ES"},
        v \in 0..MaxVerified,
        u \in 0..MaxUnverified }

\* the inputs that batches of more than one input are made of: accepted,
\* empty source, future timestamp, no provenance, foreign jurisdiction,
\* before the case, unverified provenance only, accepted with one verified
\* provenance record among nine
BatchInputs ==
    { Input("Registry", "financial_record", 40, TRUE, 45990, "IE", 1, 0),
      Input("", "financial_record", 40, TRUE, 45990, "IE", 1, 0),
      Input("", "witness_statement", 0, FALSE, 45990, "ES", 0, 0),
      Input("Registry", "witness_statement", 40, TRUE, 46001, "IE", 1, 0),
      Input("Registry", "financial_record", 11, FALSE, 45990, "ES", 1, 0),
      Input("Registry", "witness_statement", 2000, TRUE, 44000, "IE", 2, 0),
      Input("Registry", "financial_record", 40, FALSE, 45200, "IE", 0, 1),
      Input("Registry", "witness_statement", 40, TRUE, 45990, "IE", 1, 8) }

\* ------------------------------------------------------------------------
\* CVK 1100: verifyInput
\* ------------------------------------------------------------------------
SumOver(s, f(_)) ==
    LET sum[i \in 0..Len(s)] == IF i = 0 THEN 0 ELSE sum[i - 1] + f(s[i])
    IN  sum[Len(s)]

Count(s, Test(_)) == Len(SelectSeq(s, Test))

validSourceTypes ==
    <<"cave_carving", "ancient_manuscript", "historical_archive", "oral_tradition",
      "written_record", "legal_document", "financial_record", "government_database",
      "corporate_record", "digital_trace", "witness_statement", "physical_evidence",
      "scientific_analysis", "surveillance_data", "communication_intercept",
      "osint_collection">>

VerifiedCount(input) == Count(input.provenance, LAMBDA p : p.verified)

\* confidences in tenths; t is the value of new Date()
performRealityChecks(input, t) ==
    LET isValidDate   == input.timestamp <= t /\ input.timestamp >= 0
        hasProvenance == Len(input.provenance) > 0
        validType     == Contains(validSourceTypes, input.sourceType)
    IN  << [check |-> "Source existence verification",
            passed |-> input.source # "",
            confidence |-> IF input.source # "" THEN 900 ELSE 0],
           [check |-> "Content substantiveness",
            passed |-> input.content.length > 10,
            confidence |-> Min(1000, input.content.length)],
           [check |-> "Temporal validity",
            passed |-> isValidDate,
            confidence |-> IF isValidDate THEN 950 ELSE 100],
           [check |-> "Provenance chain verification",
            passed |-> hasProvenance,
            confidence |-> IF hasProvenance THEN 850 ELSE 400],
           [check |-> "Source type classification",
            passed |-> validType,
            confidence |-> IF validType THEN 1000 ELSE 0] >>

performTruthChecks(input, context) ==
    LET temporallyConsistent == input.timestamp >= context.startDate
        jurisdictionValid    == Contains(context.jurisdictions, input.jurisdiction)
    IN  << [check |-> "Internal consistency analysis",
            passed |-> TRUE, contradictions |-> <<>>, confidence |-> 80],
           [check |-> "External source corroboration",
            passed |-> VerifiedCount(input) > 0,
            contradictions |-> <<>>,
            confidence |-> VerifiedCount(input) * 20],
           [check |-> "Temporal consistency with case timeline",
            passed |-> temporallyConsistent,
            contradictions |-> IF temporallyConsistent THEN <<>>
                               ELSE <<"Outside case timeline">>,
            confidence |-> IF temporallyConsistent THEN 90 ELSE 30],
           [check |-> "Jurisdictional validity",
            passed |-> jurisdictionValid,
            contradictions |-> IF jurisdictionValid THEN <<>>
                               ELSE <<"Not valid for case jurisdictions">>,
            confidence |-> IF jurisdictionValid THEN 95 ELSE 50] >>

relevantSourceTypes(caseType) ==
    CASE caseType = "fraud" ->
            {"financial_record", "legal_document", "corporate_record", "digital_trace"}
      [] caseType = "missing_person" ->
            {"witness_statement", "surveillance_data", "digital_trace",
             "communication_intercept"}
      [] caseType = "predatory_lending" ->
            {"financial_record", "legal_document", "corporate_record"}
      [] caseType = "corruption" ->
            {"financial_record", "government_database", "communication_intercept"}
      [] OTHER -> {}

\* t is the value of Date.now()
calculateRelevance(input, context, t) ==
    Min(100,
        50
        + (IF input.sourceType \in relevantSourceTypes(context.caseType) THEN 30 ELSE 0)
        + (IF VerifiedCount(input) > 0 THEN 15 ELSE 0)
        + (IF t - input.timestamp < 365 THEN 10 ELSE 0))

isActionableIntelligence(input) == input.content.identifiers

performNecessityChecks(input, context, t) ==
    LET relevanceScore == calculateRelevance(input, context, t)
        isActionable   == isActionableIntelligence(input)
    IN  << [check |-> "Case type relevance",
            needed |-> relevanceScore >= 50, relevance |-> relevanceScore],
           [check |-> "Information uniqueness",
            needed |-> TRUE, relevance |-> 80],
           [check |-> "Actionable intelligence assessment",
            needed |-> isActionable,
            relevance |-> IF isActionable THEN 90 ELSE 30] >>

performCrossReferences(input, context) ==
    [i \in 1..Len(input.provenance) |->
        [matches |-> input.provenance[i].verified,
         matchScore |-> IF input.provenance[i].verified THEN 90 ELSE 40]]
    \o << [matches |-> TRUE, matchScore |-> 85] >>

\* the anomalies without the test of the timestamp
detectAnomaliesNoTemporal(input, realityChecks, truthChecks, t) ==
    LET failed == Count(realityChecks, LAMBDA c : ~c.passed)
        contradictions == SumOver(truthChecks, LAMBDA c : Len(c.contradictions))
    IN  (IF failed > 0
         THEN <<[type |-> "logical",
                 severity |-> IF failed > 2 THEN "high" ELSE "medium",
                 requiresHumanReview |-> failed > 2]>>
         ELSE <<>>)
        \o
        (IF contradictions > 0
         THEN <<[type |-> "documentary", severity |-> "high",
                 requiresHumanReview |-> TRUE]>>
         ELSE <<>>)

\* t is the value of new Date()
detectAnomalies(input, realityChecks, truthChecks, t) ==
    LET failed == Count(realityChecks, LAMBDA c : ~c.passed)
        contradictions == SumOver(truthChecks, LAMBDA c : Len(c.contradictions))
    IN  (IF input.timestamp > t
         THEN <<[type |-> "temporal", severity |-> "critical",
                 requiresHumanReview |-> TRUE]>>
         ELSE <<>>)
        \o
        (IF failed > 0
         THEN <<[type |-> "logical",
                 severity |-> IF failed > 2 THEN "high" ELSE "medium",
                 requiresHumanReview |-> failed > 2]>>
         ELSE <<>>)
        \o
        (IF contradictions > 0
         THEN <<[type |-> "documentary", severity |-> "high",
                 requiresHumanReview |-> TRUE]>>
         ELSE <<>>)

\* the level if the score started from 0 instead of 5
calculateVerificationLevelNoBase(realityChecks, truthChecks, necessityChecks, crossReferences, anomalies) ==
    LET n == Len(crossReferences)
        r == Count(realityChecks, LAMBDA c : c.passed)
        t == Count(truthChecks, LAMBDA c : c.passed)
        x == SumOver(crossReferences, LAMBDA c : c.matchScore)
        critical == Count(anomalies, LAMBDA a : a.severity = "critical")
        high     == Count(anomalies, LAMBDA a : a.severity = "high")
        num == 40 * r * n + 50 * t * n + x
               - 200 * critical * n - 100 * high * n
        den == 100 * n
        rounded == (2 * num + den) \div (2 * den)
    IN  Max(1, Min(10, rounded))

\* level = 5 + 2 * passed reality / 5 + 2 * passed truth / 4
\*         + sum(matchScore) / (n * 100) - 2 * critical - high,
\* in exact arithmetic over the denominator 100 n; Math.round is
\* floor(x + 1/2)
calculateVerificationLevel(realityChecks, truthChecks, necessityChecks, crossReferences, anomalies) ==
    LET n == Len(crossReferences)
        r == Count(realityChecks, LAMBDA c : c.passed)
        t == Count(truthChecks, LAMBDA c : c.passed)
        x == SumOver(crossReferences, LAMBDA c : c.matchScore)
        critical == Count(anomalies, LAMBDA a : a.severity = "critical")
        high     == Count(anomalies, LAMBDA a : a.severity = "high")
        num == 500 * n + 40 * r * n + 50 * t * n + x
               - 200 * critical * n - 100 * high * n
        den == 100 * n
        rounded == (2 * num + den) \div (2 * den)
    IN  Max(1, Min(10, rounded))

\* the confidence if the necessity and cross-reference terms were left out
calculateConfidenceTwoTerms(realityChecks, truthChecks, necessityChecks, crossReferences) ==
    LET n == Len(crossReferences)
        r == SumOver(realityChecks, LAMBDA c : c.confidence)
        t == SumOver(truthChecks, LAMBDA c : c.confidence)
    IN  Frac(18 * n * r + 225 * n * t, 3000 * n)

\* reality * 0.3 + truth * 0.3 + necessity * 0.2 + crossRef * 0.2 with the
\* four averages over 5, 4, 3 and n entries, in exact arithmetic over the
\* denominator 3000 n (reality confidences are in tenths)
calculateConfidence(realityChecks, truthChecks, necessityChecks, crossReferences) ==
    LET n == Len(crossReferences)
        r == SumOver(realityChecks, LAMBDA c : c.confidence)
        t == SumOver(truthChecks, LAMBDA c : c.confidence)
        q == SumOver(necessityChecks, LAMBDA c : c.relevance)
        x == SumOver(crossReferences, LAMBDA c : c.matchScore)
    IN  Frac(18 * n * r + 225 * n * t + 200 * n * q + 600 * x, 3000 * n)

FracLess(v, k) == v.den > 0 /\ v.num < k * v.den
\* the rejection test without its truth clause
isRejectedNoTruth(isReal, isTrue, isNeeded, confidence) ==
    ~isReal \/ ~isNeeded \/ FracLess(confidence, 50)


isRejected(isReal, isTrue, isNeeded, confidence) ==
    ~isReal \/ ~isTrue \/ ~isNeeded \/ FracLess(confidence, 50)

mapSourceToFragmentType(sourceType) ==
    CASE sourceType \in {"cave_carving", "ancient_manuscript", "historical_archive"}
            -> "historical_record"
      [] sourceType = "oral_tradition" -> "oral_history"
      [] sourceType \in {"written_record", "legal_document"} -> "document_artifact"
      [] sourceType = "financial_record" -> "financial_trace"
      [] sourceType \in {"government_database", "corporate_record"}
            -> "institutional_record"
      [] sourceType \in {"digital_trace", "osint_collection"} -> "digital_footprint"
      [] sourceType = "witness_statement" -> "survivor_testimony"
      [] sourceType = "physical_evidence" -> "physical_evidence"
      [] sourceType = "scientific_analysis" -> "scientific_data"
      [] sourceType = "surveillance_data" -> "location_data"
      [] sourceType = "communication_intercept" -> "communication_record"
      [] OTHER -> "document_artifact"

NoFragment == [isNull |-> TRUE]

\* the id TF-<uuid> is modelled by the position of the input in the batch;
\* chainOfCustody has one entry per provenance record and one for the engine
createTruthFragment(input, inputId, verificationLevel, confidence, isReal, isTrue, isNeeded) ==
    [id |-> <<"TF", inputId>>,
     type |-> mapSourceToFragmentType(input.sourceType),
     content |-> input.content,
     verificationLevel |-> verificationLevel,
     confidence |-> confidence,
     timestamp |-> input.timestamp,
     chainOfCustody |-> Len(input.provenance) + 1,
     isReal |-> isReal, isTrue |-> isTrue, isNeeded |-> isNeeded]

\* the verification if only the first input of a batch counted as needed
verifyInputFirstOnly(input, inputId, context, tR, tN, tA) ==
    LET realityChecks == performRealityChecks(input, tR)
        isReal == /\ \A i \in 1..Len(realityChecks) : realityChecks[i].passed
                  /\ SumOver(realityChecks, LAMBDA c : c.confidence)
                        >= 700 * Len(realityChecks)
        truthChecks == performTruthChecks(input, context)
        isTrue == /\ \A i \in 1..Len(truthChecks) :
                        truthChecks[i].passed \/ Len(truthChecks[i].contradictions) = 0
                  /\ SumOver(truthChecks, LAMBDA c : c.confidence)
                        >= 70 * Len(truthChecks)
        necessityChecks == performNecessityChecks(input, context, tN)
        isNeeded == /\ inputId = 1
                    /\ \E i \in 1..Len(necessityChecks) :
                          necessityChecks[i].needed /\ necessityChecks[i].relevance >= 50
        crossReferences == performCrossReferences(input, context)
        anomalies == detectAnomalies(input, realityChecks, truthChecks, tA)
        verificationLevel == calculateVerificationLevel(realityChecks, truthChecks,
                                necessityChecks, crossReferences, anomalies)
        confidence == calculateConfidence(realityChecks, truthChecks,
                                necessityChecks, crossReferences)
        rejected == isRejected(isReal, isTrue, isNeeded, confidence)
    IN  [inputId |-> inputId,
         isReal |-> isReal, isTrue |-> isTrue, isNeeded |-> isNeeded,
         verificationLevel |-> verificationLevel,
         confidence |-> confidence,
         reasoning |-> [realityChecks |-> realityChecks,
                        truthChecks |-> truthChecks,
                        necessityChecks |-> necessityChecks,
                        crossReferences |-> crossReferences,
                        anomalies |-> anomalies],
         fragment |-> IF rejected THEN NoFragment
                      ELSE createTruthFragment(input, inputId, verificationLevel,
                                               confidence, isReal, isTrue, isNeeded),
         rejected |-> rejected]

\* tR, tN, tA: the clock when the reality checks, the relevance score and
\* the anomaly detection read it
verifyInput(input, inputId, context, tR, tN, tA) ==
    LET realityChecks == performRealityChecks(input, tR)
        isReal == /\ \A i \in 1..Len(realityChecks) : realityChecks[i].passed
                  /\ SumOver(realityChecks, LAMBDA c : c.confidence)
                        >= 700 * Len(realityChecks)
        truthChecks == performTruthChecks(input, context)
        isTrue == /\ \A i \in 1..Len(truthChecks) :
                        truthChecks[i].passed \/ Len(truthChecks[i].contradictions) = 0
                  /\ SumOver(truthChecks, LAMBDA c : c.confidence)
                        >= 70 * Len(truthChecks)
        necessityChecks == performNecessityChecks(input, context, tN)
        isNeeded == \E i \in 1..Len(necessityChecks) :
                        necessityChecks[i].needed /\ necessityChecks[i].relevance >= 50
        crossReferences == performCrossReferences(input, context)
        anomalies == detectAnomalies(input, realityChecks, truthChecks, tA)
        verificationLevel == calculateVerificationLevel(realityChecks, truthChecks,
                                necessityChecks, crossReferences, anomalies)
        confidence == calculateConfidence(realityChecks, truthChecks,
                                necessityChecks, crossReferences)
        rejected == isRejected(isReal, isTrue, isNeeded, confidence)
    IN  [inputId |-> inputId,
         isReal |-> isReal, isTrue |-> isTrue, isNeeded |-> isNeeded,
         verificationLevel |-> verificationLevel,
         confidence |-> confidence,
         reasoning |-> [realityChecks |-> realityChecks,
                        truthChecks |-> truthChecks,
                        necessityChecks |-> necessityChecks,
                        crossReferences |-> crossReferences,
                        anomalies |-> anomalies],
         fragment |-> IF rejected THEN NoFragment
                      ELSE createTruthFragment(input, inputId, verificationLevel,
                                               confidence, isReal, isTrue, isNeeded),
         rejected |-> rejected]
\* the human review test on the level alone
needsHumanReviewLevelOnly(r) == r.verificationLevel >= 7

\* ------------------------------------------------------------------------
\* CVK 1100: human review and rejection records
\* ------------------------------------------------------------------------
needsHumanReview(r) ==
    \/ r.verificationLevel >= 7
    \/ \E i \in 1..Len(r.reasoning.anomalies) :
          r.reasoning.anomalies[i].requiresHumanReview

\* the priority if level 9 itself did not count as the highest class
calculateReviewPriorityStrict(r) ==
    LET base == IF r.verificationLevel > 9 THEN 10
                ELSE IF r.verificationLevel >= 7 THEN 8
                ELSE 5
        criticalAnomalies == Count(r.reasoning.anomalies,
                                   LAMBDA a : a.severity = "critical")
    IN  Min(10, base + criticalAnomalies * 2)

calculateReviewPriority(r) ==
    LET base == IF r.verificationLevel >= 9 THEN 10
                ELSE IF r.verificationLevel >= 7 THEN 8
                ELSE 5
        criticalAnomalies == Count(r.reasoning.anomalies,
                                   LAMBDA a : a.severity = "critical")
    IN  Min(10, base + criticalAnomalies * 2)

\* hours after Date.now()
calculateReviewDeadline(r) ==
    LET priority == calculateReviewPriority(r)
    IN  IF priority >= 9 THEN 24
        ELSE IF priority >= 7 THEN 72
        ELSE 7 * 24

humanReviewItem(r) ==
    [inputId |-> r.inputId,
     priority |-> calculateReviewPriority(r),
     deadline |-> calculateReviewDeadline(r)]
\* the categories tested in another order
categorizeRejectionTruthFirst(r) ==
    IF ~r.isTrue THEN "not_true"
    ELSE IF ~r.isReal THEN "not_real"
    ELSE IF ~r.isNeeded THEN "not_needed"
    ELSE "insufficient_verification"


categorizeRejection(r) ==
    IF ~r.isReal THEN "not_real"
    ELSE IF ~r.isTrue THEN "not_true"
    ELSE IF ~r.isNeeded THEN "not_needed"
    ELSE "insufficient_verification"

extractVerifiedFragments(rs) ==
    LET kept == SelectSeq(rs, LAMBDA r : ~r.rejected /\ r.fragment # NoFragment)
    IN  [i \in 1..Len(kept) |-> kept[i].fragment]

collectRejectedInputs(rs) ==
    LET kept == SelectSeq(rs, LAMBDA r : r.rejected)
    IN  [i \in 1..Len(kept) |->
            [inputId |-> kept[i].inputId,
             category |-> categorizeRejection(kept[i]),
             confidence |-> kept[i].confidence]]

\* averageConfidence and levelDistribution are left out
generateSummary(rs) ==
    [totalInputs |-> Len(rs),
     verified |-> Count(rs, LAMBDA r : ~r.rejected),
     rejected |-> Count(rs, LAMBDA r : r.rejected),
     pendingHumanReview |-> Count(rs, LAMBDA r : r.verificationLevel >= 7)]

\* ------------------------------------------------------------------------
\* processFragments as a state machine
\* ------------------------------------------------------------------------
NoResult == [returned |-> FALSE]

Init ==
    /\ pc = "filter"
    /\ fragments \in SeqsUpTo(FragmentPool, MaxFragments)
    /\ now = 0
    /\ verifiedFragments = <<>>
    /\ components = <<>>
    /\ unplacedComponents = <<>>
    /\ placedComponents = <<>>
    /\ iterations = 0
    /\ maxIterations = 0
    /\ completionPercentage = Frac(0, 1)
    /\ gaps = <<>>
    /\ conclusions = <<>>
    /\ courtReady = FALSE
    /\ humanReviewRequired = FALSE
    /\ result = NoResult
    /\ cvkPc = "idle"
    /\ inputs = <<>>
    /\ cvkNow = 46000
    /\ results = <<>>
    /\ reviewItems = <<>>
    /\ cvkResult = NoResult
    /\ clockReads = <<>>
    /\ casePc = "idle"
    /\ caseResult = NoResult

\* Step 1
FilterVerifiedFragments ==
    /\ pc = "filter"
    /\ verifiedFragments' = filterVerifiedFragments(fragments)
    /\ pc' = "compress"
    /\ UNCHANGED <<fragments, now, components, unplacedComponents,
                   placedComponents, iterations, maxIterations,
                   completionPercentage, gaps, conclusions, courtReady,
                   humanReviewRequired, result>>
    /\ UNCHANGED cvkVars
    /\ UNCHANGED caseVars

\* Step 2, one element of fragments.map(compressFragment); the clock may or
\* may not have advanced since the previous element was hashed
CompressFragment ==
    /\ pc = "compress"
    /\ Len(components) < Len(verifiedFragments)
    /\ \E dt \in {0, 1} :
        /\ now + dt <= MaxTicks
        /\ now' = now + dt
    /\ components' = Append(components,
                            compressFragment(verifiedFragments[Len(components) + 1],
                                             Len(components) + 1, now'))
    /\ UNCHANGED <<pc, fragments, verifiedFragments, unplacedComponents,
                   placedComponents, iterations, maxIterations,
                   completionPercentage, gaps, conclusions, courtReady,
                   humanReviewRequired, result>>
    /\ UNCHANGED cvkVars
    /\ UNCHANGED caseVars

\* Step 3
EngineerEdges ==
    /\ pc = "compress"
    /\ Len(components) = Len(verifiedFragments)
    /\ components' = engineerEdges(components)
    /\ pc' = "initialize"
    /\ UNCHANGED <<fragments, now, verifiedFragments, unplacedComponents,
                   placedComponents, iterations, maxIterations,
                   completionPercentage, gaps, conclusions, courtReady,
                   humanReviewRequired, result>>
    /\ UNCHANGED cvkVars
    /\ UNCHANGED caseVars

\* Step 4
InitializePicture ==
    /\ pc = "initialize"
    /\ placedComponents' = <<>>
    /\ unplacedComponents' = [i \in 1..Len(components) |-> i]
    /\ completionPercentage' = Frac(0, 1)
    /\ gaps' = <<>>
    /\ conclusions' = <<>>
    /\ courtReady' = FALSE
    /\ humanReviewRequired' = FALSE
    /\ pc' = "assemble"
    /\ UNCHANGED <<fragments, now, verifiedFragments, components, iterations,
                   maxIterations, result>>
    /\ UNCHANGED cvkVars
    /\ UNCHANGED caseVars

\* Step 5, before the loop: the budget and the in-place sort
AssembleBegin ==
    /\ pc = "assemble"
    /\ iterations' = 0
    /\ maxIterations' = Len(unplacedComponents) * 10
    /\ unplacedComponents' = SortByWeight(unplacedComponents, components)
    /\ pc' = "loop"
    /\ UNCHANGED <<fragments, now, verifiedFragments, components,
                   placedComponents, completionPercentage, gaps, conclusions,
                   courtReady, humanReviewRequired, result>>
    /\ UNCHANGED cvkVars
    /\ UNCHANGED caseVars

\* Step 5, one iteration of the while loop
AssembleStep ==
    /\ pc = "loop"
    /\ Len(unplacedComponents) > 0
    /\ iterations < maxIterations
    /\ iterations' = iterations + 1
    /\ LET next == assembleIteration(components, unplacedComponents, placedComponents)
       IN  /\ components' = next.components
           /\ placedComponents' = next.placedComponents
           /\ unplacedComponents' = next.unplacedComponents
    /\ UNCHANGED <<pc, fragments, now, verifiedFragments, maxIterations,
                   completionPercentage, gaps, conclusions, courtReady,
                   humanReviewRequired, result>>
    /\ UNCHANGED cvkVars
    /\ UNCHANGED caseVars

\* Step 5, after the loop
AssembleEnd ==
    /\ pc = "loop"
    /\ ~(Len(unplacedComponents) > 0 /\ iterations < maxIterations)
    /\ completionPercentage' = calculateCompletion(placedComponents, components)
    /\ pc' = "gaps"
    /\ UNCHANGED <<fragments, now, verifiedFragments, components,
                   unplacedComponents, placedComponents, iterations,
                   maxIterations, gaps, conclusions, courtReady,
                   humanReviewRequired, result>>
    /\ UNCHANGED cvkVars
    /\ UNCHANGED caseVars

\* Step 6
IdentifyGaps ==
    /\ pc = "gaps"
    /\ gaps' = identifyGaps(placedComponents, components)
    /\ pc' = "conclusions"
    /\ UNCHANGED <<fragments, now, verifiedFragments, components,
                   unplacedComponents, placedComponents, iterations,
                   maxIterations, completionPercentage, conclusions,
                   courtReady, humanReviewRequired, result>>
    /\ UNCHANGED cvkVars
    /\ UNCHANGED caseVars

\* Step 7
DrawConclusions ==
    /\ pc = "conclusions"
    /\ conclusions' = drawConclusions(completionPercentage, gaps,
                                      placedComponents, components)
    /\ pc' = "assess"
    /\ UNCHANGED <<fragments, now, verifiedFragments, components,
                   unplacedComponents, placedComponents, iterations,
                   maxIterations, completionPercentage, gaps, courtReady,
                   humanReviewRequired, result>>
    /\ UNCHANGED cvkVars
    /\ UNCHANGED caseVars

\* step 8 if the returned picture were built without humanReviewRequired
AssessCourtReadinessNoReview ==
    /\ pc = "assess"
    /\ courtReady' = assessCourtReady(completionPercentage, conclusions,
                                      placedComponents, components)
    /\ pc' = "return"
    /\ UNCHANGED <<fragments, now, verifiedFragments, components,
                   unplacedComponents, placedComponents, iterations,
                   maxIterations, completionPercentage, gaps, conclusions,
                   humanReviewRequired, result>>
    /\ UNCHANGED cvkVars
    /\ UNCHANGED caseVars

\* Step 8
AssessCourtReadiness ==
    /\ pc = "assess"
    /\ courtReady' = assessCourtReady(completionPercentage, conclusions,
                                      placedComponents, components)
    /\ humanReviewRequired' = assessHumanReview(completionPercentage, conclusions)
    /\ pc' = "return"
    /\ UNCHANGED <<fragments, now, verifiedFragments, components,
                   unplacedComponents, placedComponents, iterations,
                   maxIterations, completionPercentage, gaps, conclusions,
                   result>>
    /\ UNCHANGED cvkVars
    /\ UNCHANGED caseVars

\* the JigsawResult
Return ==
    /\ pc = "return"
    /\ result' = [returned |-> TRUE,
                  fragmentsProcessed |-> Len(fragments),
                  componentsCreated |-> Len(components),
                  componentsPlaced |-> Len(placedComponents),
                  gapsIdentified |-> Len(gaps),
                  conclusionsDrawn |-> Len(conclusions),
                  humanReviewRequired |-> humanReviewRequired,
                  courtReadiness |-> calculateCourtReadiness(completionPercentage,
                                        conclusions, placedComponents, components, gaps)]
    /\ pc' = "done"
    /\ UNCHANGED <<fragments, now, verifiedFragments, components,
                   unplacedComponents, placedComponents, iterations,
                   maxIterations, completionPercentage, gaps, conclusions,
                   courtReady, humanReviewRequired>>
    /\ UNCHANGED cvkVars
    /\ UNCHANGED caseVars

Next ==
    \/ FilterVerifiedFragments
    \/ CompressFragment
    \/ EngineerEdges
    \/ InitializePicture
    \/ AssembleBegin
    \/ AssembleStep
    \/ AssembleEnd
    \/ IdentifyGaps
    \/ DrawConclusions
    \/ AssessCourtReadiness
    \/ Return

Spec == Init /\ [][Next]_vars

\* ------------------------------------------------------------------------
\* processInputs as a state machine
\* ------------------------------------------------------------------------
InitCVK ==
    /\ cvkPc = "verify"
    /\ inputs \in {<<i>> : i \in RawInputs} \cup SeqsUpTo(BatchInputs, MaxInputs)
    /\ cvkNow = 46000
    /\ results = <<>>
    /\ reviewItems = <<>>
    /\ cvkResult = NoResult
    /\ clockReads = <<>>
    /\ casePc = "idle"
    /\ caseResult = NoResult
    /\ pc = "idle"
    /\ fragments = <<>>
    /\ now = 0
    /\ verifiedFragments = <<>>
    /\ components = <<>>
    /\ unplacedComponents = <<>>
    /\ placedComponents = <<>>
    /\ iterations = 0
    /\ maxIterations = 0
    /\ completionPercentage = Frac(0, 1)
    /\ gaps = <<>>
    /\ conclusions = <<>>
    /\ courtReady = FALSE
    /\ humanReviewRequired = FALSE
    /\ result = NoResult

\* one iteration of the for loop: verifyInput, then the human review test.
\* The clock may advance between the reads inside verifyInput.
VerifyInput ==
    /\ cvkPc = "verify"
    /\ Len(results) < Len(inputs)
    /\ \E tR \in cvkNow..(46000 + MaxTicks) :
       \E tN \in tR..(46000 + MaxTicks) :
       \E tA \in tN..(46000 + MaxTicks) :
         LET k == Len(results) + 1
             r == verifyInput(inputs[k], k, caseContext, tR, tN, tA)
         IN  /\ cvkNow' = tA
             /\ results' = Append(results, r)
             /\ clockReads' = Append(clockReads, <<tR, tN, tA>>)
             /\ reviewItems' = IF needsHumanReview(r)
                               THEN Append(reviewItems, humanReviewItem(r))
                               ELSE reviewItems
    /\ UNCHANGED <<cvkPc, inputs, cvkResult>>
    /\ UNCHANGED jigsawVars
    /\ UNCHANGED caseVars

\* after the loop: the fragments, the rejections, the summary
CollectResults ==
    /\ cvkPc = "verify"
    /\ Len(results) = Len(inputs)
    /\ cvkResult' = [returned |-> TRUE,
                     processedInputs |-> Len(inputs),
                     verifiedFragments |-> extractVerifiedFragments(results),
                     rejectedInputs |-> collectRejectedInputs(results),
                     verificationSummary |-> generateSummary(results),
                     humanReviewRequired |-> reviewItems]
    /\ cvkPc' = "done"
    /\ UNCHANGED <<inputs, cvkNow, results, reviewItems, clockReads>>
    /\ UNCHANGED jigsawVars
    /\ UNCHANGED caseVars

NextCVK ==
    \/ VerifyInput
    \/ CollectResults

SpecCVK == InitCVK /\ [][NextCVK]_vars

\* ------------------------------------------------------------------------
\* CombinedEngine.processCase: processInputs, then processFragments on the
\* verified fragments, then the consolidation of the human review items.
\* The analysis, readiness, recommendation and next-step records of the
\* result are computed from the two engine results without changing them
\* and are left out.
\* ------------------------------------------------------------------------
\* The jigsaw operators keep weights in tenths and take the confidence of a
\* fragment as a whole number; the confidence of a verifier fragment is a
\* fraction and enters them truncated to a whole percent.
wholePercent(v) == v.num \div v.den

jigsawFragment(f) == [f EXCEPT !.confidence = wholePercent(f.confidence)]

\* insert item x behind every item whose priority is >= its own
RECURSIVE InsertByPriority(_, _)
InsertByPriority(sorted, x) ==
    IF sorted = <<>> THEN <<x>>
    ELSE IF Head(sorted).priority >= x.priority
         THEN <<Head(sorted)>> \o InsertByPriority(Tail(sorted), x)
         ELSE <<x>> \o sorted

\* items.sort((a, b) => b.priority - a.priority): stable, descending
RECURSIVE SortByPriority(_)
SortByPriority(items) ==
    IF items = <<>> THEN <<>>
    ELSE InsertByPriority(SortByPriority(SubSeq(items, 1, Len(items) - 1)),
                          items[Len(items)])

\* the picture id PIC-<uuid> is modelled by 0; input ids are positions >= 1
reviewSummaries(cvk1100Result, jigsawResult) ==
    [i \in 1..Len(cvk1100Result.humanReviewRequired) |->
        [itemId |-> cvk1100Result.humanReviewRequired[i].inputId,
         source |-> "cvk1100",
         priority |-> cvk1100Result.humanReviewRequired[i].priority,
         deadline |-> cvk1100Result.humanReviewRequired[i].deadline,
         status |-> "pending"]]
    \o
    (IF jigsawResult.humanReviewRequired
     THEN <<[itemId |-> 0, source |-> "jigsaw", priority |-> 10,
             deadline |-> 72, status |-> "pending"]>>
     ELSE <<>>)

\* the consolidation if the items were returned in the order collected
consolidateHumanReviewUnsorted(cvk1100Result, jigsawResult) ==
    reviewSummaries(cvk1100Result, jigsawResult)

consolidateHumanReview(cvk1100Result, jigsawResult) ==
    SortByPriority(reviewSummaries(cvk1100Result, jigsawResult))

InitCase ==
    /\ casePc = "cvk"
    /\ caseResult = NoResult
    /\ cvkPc = "verify"
    /\ inputs \in SeqsUpTo(BatchInputs, MaxInputs)
    /\ cvkNow = 46000
    /\ results = <<>>
    /\ reviewItems = <<>>
    /\ cvkResult = NoResult
    /\ clockReads = <<>>
    /\ pc = "idle"
    /\ fragments = <<>>
    /\ now = 0
    /\ verifiedFragments = <<>>
    /\ components = <<>>
    /\ unplacedComponents = <<>>
    /\ placedComponents = <<>>
    /\ iterations = 0
    /\ maxIterations = 0
    /\ completionPercentage = Frac(0, 1)
    /\ gaps = <<>>
    /\ conclusions = <<>>
    /\ courtReady = FALSE
    /\ humanReviewRequired = FALSE
    /\ result = NoResult

\* phase 2: processFragments is called with the fragments of phase 1
CallProcessFragments ==
    /\ casePc = "cvk"
    /\ cvkPc = "done"
    /\ fragments' = [i \in 1..Len(cvkResult.verifiedFragments) |->
                        jigsawFragment(cvkResult.verifiedFragments[i])]
    /\ pc' = "filter"
    /\ casePc' = "jigsaw"
    /\ UNCHANGED <<now, verifiedFragments, components, unplacedComponents,
                   placedComponents, iterations, maxIterations,
                   completionPercentage, gaps, conclusions, courtReady,
                   humanReviewRequired, result>>
    /\ UNCHANGED cvkVars
    /\ UNCHANGED caseResult

\* phase 5 and the result
ConsolidateHumanReview ==
    /\ casePc = "jigsaw"
    /\ pc = "done"
    /\ LET humanReviewItems == consolidateHumanReview(cvkResult, result)
       IN  caseResult' =
             [returned |-> TRUE,
              humanReviewRequired |-> \/ Len(humanReviewItems) > 0
                                      \/ result.humanReviewRequired,
              humanReviewItems |-> humanReviewItems]
    /\ casePc' = "done"
    /\ UNCHANGED jigsawVars
    /\ UNCHANGED cvkVars

NextCase ==
    \/ VerifyInput
    \/ CollectResults
    \/ CallProcessFragments
    \/ Next
    \/ ConsolidateHumanReview

SpecCase == InitCase /\ [][NextCase]_vars

\* ------------------------------------------------------------------------
\* Properties of processFragments
\* ------------------------------------------------------------------------
Assembled == pc \in {"gaps", "conclusions", "assess", "return", "done"}

Compressed == pc \in {"initialize", "assemble", "loop"} \/ Assembled

GatedFragments ==
    SelectSeq(fragments, LAMBDA f : /\ f.isReal /\ f.isTrue /\ f.isNeeded
                                    /\ f.verificationLevel >= 5)

\* C1: for every list of fragments, the empty list and lists without a gated
\* fragment included, the completionPercentage of the returned picture is a
\* number between 0 and 100.
C1_CompletionInRange ==
    Assembled => FracBetween(completionPercentage, 0, 100)

\* C2: exactly one component is created for each fragment that is real, true,
\* needed and of verification level >= 5, in input order, and none for any
\* other fragment; componentsCreated is the number of such fragments.
C2_GatedMapping ==
    /\ Compressed =>
        /\ Len(components) = Len(GatedFragments)
        /\ \A i \in 1..Len(components) : components[i].fragmentId = GatedFragments[i].id
    /\ result.returned => result.componentsCreated = Len(GatedFragments)

C2_Witness ==
    /\ pc = "done"
    /\ Len(components) = 2
    /\ \E i \in 1..Len(fragments) :
        /\ fragments[i].verificationLevel = 3
        /\ fragments[i].isReal /\ fragments[i].isTrue /\ fragments[i].isNeeded

\* C3: once a component is locked, its position and its shape never change,
\* in no later loop iteration and in no later stage.
C3_LockedImmutable ==
    [][\A i \in 1..Len(components) :
          components[i].locked =>
            /\ i <= Len(components')
            /\ components'[i].position = components[i].position
            /\ components'[i].shape = components[i].shape]_vars

C3_Witness ==
    /\ pc = "done"
    /\ Len(placedComponents) = 3
    /\ \A i \in 1..Len(components) :
          components[i].locked /\ components[i].position # NoPosition

SamePlace(p, q) == p.x = q.x /\ p.y = q.y /\ p.z = q.z

\* the (component, direction) pairs with a non-empty compatibleWith set and
\* no placed component on the adjacent coordinate
UnmetEdges ==
    { ce \in Range(placedComponents) \X Range(Directions) :
        \E k \in 1..Len(components[ce[1]].edges) :
            LET edge == components[ce[1]].edges[k]
                want == calculateAdjacentPosition(components[ce[1]].position, ce[2])
            IN  /\ edge.direction = ce[2]
                /\ Len(edge.compatibleWith) > 0
                /\ ~\E o \in Range(placedComponents) :
                      o # ce[1] /\ SamePlace(components[o].position, want) }

\* C4: the gap list of the returned picture is empty iff every edge with a
\* non-empty compatibleWith set of every placed component has a placed
\* neighbour on the adjacent coordinate in its direction; otherwise there is
\* exactly one gap for each unmet (component, edge) pair.
C4_GapsAreUnmetEdges ==
    pc = "done" =>
        /\ (gaps = <<>>) <=> (UnmetEdges = {})
        /\ {<<gaps[g].component, gaps[g].direction>> : g \in 1..Len(gaps)}
              = UnmetEdges
        /\ Len(gaps) = Cardinality(UnmetEdges)

\* C5: no two components of a picture have the same integrity hash, also
\* when their fragments are identical and are compressed at the same instant.
C5_UniqueHashes ==
    \A i, j \in 1..Len(components) :
        i # j => components[i].hash # components[j].hash

\* C10: the first component placed is the one of highest weight, the earliest
\* in input order among those of equal weight, at (0,0,0) with confidence 100
\* and locked; a single gated fragment gives one component, at the origin,
\* and completion 100%.
C10_FirstPlaced ==
    /\ Len(placedComponents) >= 1 =>
        LET first == placedComponents[1]
        IN  /\ \A i \in 1..Len(components) :
                  /\ components[i].weight <= components[first].weight
                  /\ components[i].weight = components[first].weight => first <= i
            /\ components[first].position = Origin
            /\ components[first].locked
    /\ (Assembled /\ Len(components) >= 1) => Len(placedComponents) >= 1
    /\ (pc = "done" /\ Len(GatedFragments) = 1) =>
        /\ Len(components) = 1
        /\ placedComponents = <<1>>
        /\ components[1].position = Origin
        /\ FracBetween(completionPercentage, 100, 100)

C10_Witness ==
    /\ pc = "done"
    /\ Len(components) = 3
    /\ placedComponents[1] = 2
    /\ components[2].weight = components[3].weight
    /\ components[1].weight < components[2].weight

\* ------------------------------------------------------------------------
\* Properties of processInputs
\* ------------------------------------------------------------------------
RejectionsOf(k) ==
    {i \in 1..Len(cvkResult.rejectedInputs) : cvkResult.rejectedInputs[i].inputId = k}

FragmentsOf(k) ==
    {i \in 1..Len(cvkResult.verifiedFragments) :
        cvkResult.verifiedFragments[i].id = <<"TF", k>>}

\* C6: an input is rejected iff it is not real, not true, not needed or of
\* confidence < 50; a rejected input has no fragment and exactly one entry
\* in rejectedInputs, any other input exactly one fragment; the two lists
\* together are as long as the batch.
C6_RejectionAccounting ==
    /\ \A k \in 1..Len(results) :
        /\ results[k].rejected <=>
              \/ ~results[k].isReal
              \/ ~results[k].isTrue
              \/ ~results[k].isNeeded
              \/ (results[k].confidence.num < 50 * results[k].confidence.den)
        /\ results[k].rejected <=> (results[k].fragment = NoFragment)
    /\ cvkPc = "done" =>
        /\ \A k \in 1..Len(inputs) :
            /\ Cardinality(RejectionsOf(k)) = (IF results[k].rejected THEN 1 ELSE 0)
            /\ Cardinality(FragmentsOf(k)) = (IF results[k].rejected THEN 0 ELSE 1)
        /\ Len(cvkResult.verifiedFragments) + Len(cvkResult.rejectedInputs)
              = cvkResult.processedInputs
        /\ cvkResult.processedInputs = Len(inputs)

C6_Witness ==
    /\ cvkPc = "done"
    /\ Len(inputs) = 2
    /\ Len(cvkResult.verifiedFragments) = 1
    /\ Len(cvkResult.rejectedInputs) = 1
    /\ \E k \in 1..2 : results[k].isReal /\ ~results[k].isTrue

\* C7: every input that is not real is rejected as not_real whatever its
\* other checks say; a batch of inputs with empty sources gives no fragment
\* and one not_real rejection per input.
C7_NotRealFirst ==
    cvkPc = "done" =>
        /\ \A k \in 1..Len(inputs) :
              ~results[k].isReal =>
                /\ Cardinality(RejectionsOf(k)) = 1
                /\ \A i \in RejectionsOf(k) :
                      cvkResult.rejectedInputs[i].category = "not_real"
        /\ (\A k \in 1..Len(inputs) : inputs[k].source = "") =>
              /\ cvkResult.verifiedFragments = <<>>
              /\ Len(cvkResult.rejectedInputs) = Len(inputs)
              /\ \A i \in 1..Len(cvkResult.rejectedInputs) :
                    cvkResult.rejectedInputs[i].category = "not_real"

C7_Witness ==
    /\ cvkPc = "done"
    /\ Len(inputs) = 2
    /\ \A k \in 1..2 : inputs[k].source = ""
    /\ \E k \in 1..2 : ~results[k].isTrue
    /\ \E k \in 1..2 : results[k].isTrue

ReviewItemsOf(k) == {i \in 1..Len(reviewItems) : reviewItems[i].inputId = k}

\* C8: there is a human-review item for an input iff its verification level
\* is >= 7 or one of its anomalies requires human review; never more than
\* one per input; rejected inputs are treated like accepted ones.
C8_HumanReviewTrigger ==
    /\ \A k \in 1..Len(results) :
        /\ Cardinality(ReviewItemsOf(k)) <= 1
        /\ ReviewItemsOf(k) # {} <=>
              \/ results[k].verificationLevel >= 7
              \/ \E a \in Range(results[k].reasoning.anomalies) : a.requiresHumanReview
    /\ \A i \in 1..Len(reviewItems) : reviewItems[i].inputId \in 1..Len(results)
    /\ cvkPc = "done" => cvkResult.humanReviewRequired = reviewItems

C8_Witness ==
    /\ cvkPc = "done"
    /\ \E k \in 1..Len(results) :
        /\ results[k].rejected
        /\ results[k].verificationLevel < 7
        /\ ReviewItemsOf(k) # {}

\* C9: every verification result has an integer verificationLevel in 1..10
\* and a confidence between 0 and 100, whatever the number of provenance
\* entries of the input.
C9_LevelAndConfidenceRange ==
    \A k \in 1..Len(results) :
        /\ results[k].verificationLevel \in 1..10
        /\ FracBetween(results[k].confidence, 0, 100)

\* ------------------------------------------------------------------------
\* Properties of the assembly loop and of the assessment
\* ------------------------------------------------------------------------
InLoopOrAfter == pc = "loop" \/ Assembled

C11_BudgetInv ==
    /\ iterations <= maxIterations
    /\ InLoopOrAfter =>
        /\ maxIterations = 10 * Len(components)
        /\ \A k \in 1..Len(unplacedComponents) :
              /\ components[unplacedComponents[k]].position = NoPosition
              /\ ~components[unplacedComponents[k]].locked

\* C11: the loop of assemblePicture ends after at most 10 times the initial
\* number of unplaced components: every pass adds one to a counter that never
\* exceeds that budget; a component still in unplacedComponents has position
\* null and locked false, and the run goes on to return a result.
C11_TerminatesInBudget ==
    /\ []C11_BudgetInv
    /\ [][pc = "loop" => (pc' = "loop" => iterations' = iterations + 1)]_vars
    /\ [][(pc = "loop" /\ pc' # "loop") => pc' = "gaps"]_vars

C11_Witness ==
    /\ pc = "done"
    /\ result.returned
    /\ Len(components) = 3
    /\ iterations = 3
    /\ maxIterations = 30


Assessed == pc \in {"return", "done"}

\* the number of placed components of weight >= w (in tenths)
PlacedOfWeight(w) ==
    Cardinality({k \in 1..Len(placedComponents) :
                    components[placedComponents[k]].weight >= w})

\* C12: the picture is court-ready iff its completion is at least 80, one of
\* its conclusions is court-ready and at least three placed components have
\* weight >= 70; a picture of fewer than three components is never
\* court-ready.
C12_CourtReadyIff ==
    Assessed =>
        /\ courtReady <=>
              /\ completionPercentage.den > 0
              /\ completionPercentage.num >= 80 * completionPercentage.den
              /\ \E i \in 1..Len(conclusions) : conclusions[i].courtReady
              /\ PlacedOfWeight(700) >= 3
        /\ Len(components) < 3 => ~courtReady

C12_Witness ==
    /\ pc = "done"
    /\ courtReady
    /\ Len(components) = 3
    /\ \E i \in 1..Len(components) : components[i].weight < 800


\* C13: in every picture returned by processFragments, courtReady implies
\* humanReviewRequired, in the picture and in the result built from it.
C13_CourtReadyNeedsReview ==
    /\ Assessed => (courtReady => humanReviewRequired)
    /\ result.returned => (courtReady => result.humanReviewRequired)

C13_Witness ==
    /\ pc = "done"
    /\ courtReady
    /\ humanReviewRequired
    /\ result.humanReviewRequired


\* C14: the courtReadiness score of the result is a number between 0 and
\* 100 for every list of fragments, lists without a gated fragment
\* included; a list of gated fragments that all have verification level 9
\* and confidence 95 (three or more of them) has a score >= 75 and is
\* court-ready.
C14_ScoreInRange ==
    result.returned =>
        /\ FracBetween(result.courtReadiness, 0, 100)
        /\ ( /\ Len(fragments) >= 3
             /\ \A i \in 1..Len(fragments) :
                    /\ fragments[i].verificationLevel = 9
                    /\ fragments[i].confidence = 95
                    /\ fragments[i].isReal /\ fragments[i].isTrue
                    /\ fragments[i].isNeeded )
            => (FracGeq(result.courtReadiness, 75) /\ courtReady)


ConclusionsDrawn == pc = "assess" \/ Assessed

ConclusionsOfType(t) == {i \in 1..Len(conclusions) : conclusions[i].type = t}

\* C15: the conclusions of the picture contain a certainty iff completion is
\* at least 90, a recommendation iff the gap list is not empty and a finding
\* iff at least three placed components have weight >= 80; at most one of
\* each type and none of another type.
C15_Conclusions ==
    ConclusionsDrawn =>
        /\ ConclusionsOfType("certainty") # {} <=>
              /\ completionPercentage.den > 0
              /\ completionPercentage.num >= 90 * completionPercentage.den
        /\ ConclusionsOfType("recommendation") # {} <=> Len(gaps) > 0
        /\ ConclusionsOfType("finding") # {} <=> PlacedOfWeight(800) >= 3
        /\ \A t \in {"certainty", "recommendation", "finding"} :
              Cardinality(ConclusionsOfType(t)) <= 1
        /\ \A i \in 1..Len(conclusions) :
              conclusions[i].type \in {"certainty", "recommendation", "finding"}

C15_Witness ==
    /\ pc = "done"
    /\ Len(placedComponents) = 3
    /\ PlacedOfWeight(700) = 3
    /\ ConclusionsOfType("certainty") # {}
    /\ ConclusionsOfType("finding") = {}


\* a step of the loop that places the head of the queue
PlacesHead ==
    /\ pc = "loop" /\ pc' = "loop"
    /\ Len(placedComponents') = Len(placedComponents) + 1

HeadRef == unplacedComponents[1]

EdgeOf(c, d) == CHOOSE e \in Range(components[c].edges) : e.direction = d

\* C19: a component placed after the first is put on the coordinate next to
\* an already placed component P, in the direction of an edge of P whose
\* compatibleWith set contains the id of the component being placed.
C19_PlacedByEdgeOfPlaced ==
    [][(PlacesHead /\ Len(placedComponents) >= 1) =>
        \E p \in Range(placedComponents) : \E d \in Range(Directions) :
            /\ Contains(EdgeOf(p, d).compatibleWith, components[HeadRef].id)
            /\ SamePlace(components'[HeadRef].position,
                         calculateAdjacentPosition(components[p].position, d))]_vars

\* the candidates of the head: a placed component and a direction whose edge
\* of the head lists that component
HeadCandidates ==
    {pd \in Range(placedComponents) \X Range(Directions) :
        Contains(EdgeOf(HeadRef, pd[2]).compatibleWith, components[pd[1]].id)}

CandidateScore(pd) == EdgeOf(HeadRef, pd[2]).strength * components[HeadRef].weight

\* C20: in a step with a non-empty placed set the head goes to the position
\* of a candidate of maximal score; without a candidate it goes to the back
\* of the queue and the placed set, all positions and all locked flags stay
\* as they are.
C20_BestCandidateOrRequeue ==
    [][(pc = "loop" /\ pc' = "loop" /\ Len(placedComponents) >= 1) =>
        IF HeadCandidates # {}
        THEN /\ placedComponents' = Append(placedComponents, HeadRef)
             /\ unplacedComponents' = Tail(unplacedComponents)
             /\ \E pd \in HeadCandidates :
                   /\ \A other \in HeadCandidates :
                         CandidateScore(other) <= CandidateScore(pd)
                   /\ components'[HeadRef].position =
                         calculateAdjacentPosition(components[pd[1]].position, pd[2])
        ELSE /\ unplacedComponents' = Append(Tail(unplacedComponents), HeadRef)
             /\ placedComponents' = placedComponents
             /\ components' = components]_vars

C20_Witness ==
    /\ pc = "loop"
    /\ Len(placedComponents) = 2
    /\ components[placedComponents[2]].position.z = -1
    /\ Cardinality({e \in Range(components[placedComponents[2]].edges) :
                       Contains(e.compatibleWith, components[placedComponents[1]].id)}) >= 3


\* C18: assemblePicture does not modify what the earlier stages produced:
\* the unplacedComponents and placedComponents arrays of the picture made by
\* initializePicture keep their order and contents, and the components made
\* by engineerEdges keep their position and locked fields.  (The spread
\* { ...picture } copies the references, so the arrays and the components of
\* the copy are those of the picture received.)
C18_NoInPlaceMutation ==
    [][(pc = "assemble" \/ pc = "loop") =>
        ( /\ unplacedComponents' = unplacedComponents
          /\ placedComponents' = placedComponents
          /\ \A i \in 1..Len(components) :
                ( /\ components'[i].position = components[i].position
                  /\ components'[i].locked = components[i].locked ) )]_vars


\* ------------------------------------------------------------------------
\* Properties of processInputs: independence of the inputs of a batch
\* ------------------------------------------------------------------------
Outcome(r) ==
    <<r.isReal, r.isTrue, r.isNeeded, r.verificationLevel, r.confidence,
      r.rejected, IF r.rejected THEN categorizeRejection(r) ELSE "none">>

AllEvaluated ==
    /\ Len(results) <= Len(inputs)
    /\ \A k \in 1..Len(results) : results[k].inputId = k
    /\ cvkPc = "done" => Len(results) = Len(inputs)

ItemsFrom(src) ==
    {j \in 1..Len(caseResult.humanReviewItems) :
        caseResult.humanReviewItems[j].source = src}

\* C16: the consolidated list has exactly one item for each review item of
\* the verifier, and one item for the picture iff the picture's
\* humanReviewRequired is true; it is in order of non-increasing priority;
\* the combined humanReviewRequired is true iff the list is not empty.
C16_ConsolidatedReview ==
    casePc = "done" =>
        LET items == caseResult.humanReviewItems
        IN  /\ Cardinality(ItemsFrom("cvk1100")) = Len(cvkResult.humanReviewRequired)
            /\ \A i \in 1..Len(cvkResult.humanReviewRequired) :
                  Cardinality({j \in ItemsFrom("cvk1100") :
                      /\ items[j].itemId = cvkResult.humanReviewRequired[i].inputId
                      /\ items[j].priority = cvkResult.humanReviewRequired[i].priority}) = 1
            /\ Cardinality(ItemsFrom("jigsaw")) = (IF humanReviewRequired THEN 1 ELSE 0)
            /\ Len(items) = Cardinality(ItemsFrom("cvk1100")) + Cardinality(ItemsFrom("jigsaw"))
            /\ \A j \in 1..(Len(items) - 1) : items[j].priority >= items[j + 1].priority
            /\ caseResult.humanReviewRequired <=> (Len(items) > 0)

C16_Witness ==
    /\ casePc = "done"
    /\ Len(caseResult.humanReviewItems) = 3
    /\ ItemsFrom("jigsaw") # {}
    /\ caseResult.humanReviewItems[3].source = "cvk1100"
    /\ caseResult.humanReviewItems[3].priority < 10
    /\ cvkResult.humanReviewRequired[1].priority < 10

\* ------------------------------------------------------------------------
\* Edge compatibility, placement coordinates and the partition of the
\* picture
\* ------------------------------------------------------------------------
Engineered == Compressed

\* C21: once the edges are engineered, compatibility is symmetric in the
\* two components: for any two components A and B of the batch and any
\* direction d, B is listed in the compatibleWith of A's d-edge exactly when
\* A is listed in the compatibleWith of B's d-edge.
C21_CompatibilitySymmetric ==
    Engineered =>
        \A a \in 1..Len(components) : \A b \in 1..Len(components) :
            \A d \in Range(Directions) :
                (a # b) =>
                    (Contains(EdgeOf(a, d).compatibleWith, components[b].id)
                     <=> Contains(EdgeOf(b, d).compatibleWith, components[a].id))

\* two coordinates differ by exactly 1 in exactly one of x, y, z
Adjacent(p, q) ==
    \/ Abs(p.x - q.x) = 1 /\ p.y = q.y /\ p.z = q.z
    \/ p.x = q.x /\ Abs(p.y - q.y) = 1 /\ p.z = q.z
    \/ p.x = q.x /\ p.y = q.y /\ Abs(p.z - q.z) = 1

PlacedPosition(k) == components[placedComponents[k]].position

\* C22: at every step of the assembly and afterwards, every placed
\* component other than the first has a coordinate that differs by exactly
\* 1 in exactly one of x, y, z from that of a component placed before it.
C22_Connected ==
    InLoopOrAfter =>
        \A k \in 2..Len(placedComponents) :
            \E j \in 1..(k - 1) : Adjacent(PlacedPosition(k), PlacedPosition(j))

\* three components placed, the last one next to the second and not next
\* to the first
C22_Witness ==
    /\ InLoopOrAfter
    /\ Len(placedComponents) = 3
    /\ Adjacent(PlacedPosition(3), PlacedPosition(2))
    /\ ~Adjacent(PlacedPosition(3), PlacedPosition(1))

\* C23: at every step of the assembly and in the returned picture, the
\* placed and the unplaced components are disjoint and together are exactly
\* the components, no component occurs twice among the placed ones, and a
\* component is placed iff it is locked iff its position is non-null.
C23_Partition ==
    (pc = "assemble" \/ InLoopOrAfter) =>
        /\ Range(placedComponents) \cap Range(unplacedComponents) = {}
        /\ Range(placedComponents) \cup Range(unplacedComponents)
               = 1..Len(components)
        /\ Cardinality(Range(placedComponents)) = Len(placedComponents)
        /\ \A c \in 1..Len(components) :
               /\ (c \in Range(placedComponents)) <=> components[c].locked
               /\ components[c].locked <=> (components[c].position # NoPosition)

\* in the middle of the loop: some components placed, some still queued
C23_Witness ==
    /\ pc = "loop"
    /\ Len(placedComponents) = 2
    /\ Len(unplacedComponents) = 1
    /\ components[placedComponents[2]].locked
    /\ ~components[unplacedComponents[1]].locked

\* C28: in every picture, no two placed components have the same
\* (x, y, z) coordinate.
C28_DistinctCoordinates ==
    InLoopOrAfter =>
        \A j \in 1..Len(placedComponents) : \A k \in 1..Len(placedComponents) :
            (j # k) => ~SamePlace(PlacedPosition(j), PlacedPosition(k))

\* the placed components followed by the queue, in order
AssemblyOrder == placedComponents \o unplacedComponents

\* C26: with at least one component, assemblePicture places every
\* component: every pass of the loop places the head of the queue (the
\* number of passes equals the number of placed components, so no pass
\* requeues), components are placed in non-increasing order of weight, and
\* after the loop unplacedComponents is empty, the loop has run once per
\* component and completionPercentage is exactly 100.
C26_AllPlacedInWeightOrder ==
    (InLoopOrAfter /\ Len(components) >= 1) =>
        /\ iterations = Len(placedComponents)
        /\ \A j \in 1..Len(AssemblyOrder) : \A k \in 1..Len(AssemblyOrder) :
               (j < k) => components[AssemblyOrder[j]].weight
                              >= components[AssemblyOrder[k]].weight
        /\ Assembled =>
               /\ unplacedComponents = <<>>
               /\ iterations = Len(components)
               /\ ~IsNaN(completionPercentage)
               /\ completionPercentage.num = 100 * completionPercentage.den

\* three components given in increasing order of weight, all placed
C26_Witness ==
    /\ Assembled
    /\ Len(components) = 3
    /\ components[1].weight < components[2].weight
    /\ components[2].weight < components[3].weight
    /\ placedComponents = <<3, 2, 1>>
    /\ iterations = 3

AnomaliesOf(k) == Range(results[k].reasoning.anomalies)

FailedRealityChecks(k) == Count(results[k].reasoning.realityChecks, LAMBDA c : ~c.passed)

Contradictions(k) ==
    SumOver(results[k].reasoning.truthChecks, LAMBDA c : Len(c.contradictions))

\* the timestamp of input k is ahead of the clock read by detectAnomalies
FutureTimestamp(k) == inputs[k].timestamp > clockReads[k][3]

\* C24: an input whose timestamp is in the future when the anomalies are
\* detected gets a critical temporal anomaly that requires human review; an
\* input with more than 2 failed reality checks gets a logical anomaly; an
\* input with a truth-check contradiction gets a documentary anomaly that
\* requires human review.  Every input with a future timestamp is rejected
\* and has an item in the human-review list.
C24_Anomalies ==
    \A k \in 1..Len(results) :
        /\ FutureTimestamp(k) =>
              \E a \in AnomaliesOf(k) :
                  a.type = "temporal" /\ a.severity = "critical" /\ a.requiresHumanReview
        /\ FailedRealityChecks(k) > 2 =>
              \E a \in AnomaliesOf(k) : a.type = "logical"
        /\ Contradictions(k) > 0 =>
              \E a \in AnomaliesOf(k) : a.type = "documentary" /\ a.requiresHumanReview
        /\ FutureTimestamp(k) =>
              /\ results[k].rejected
              /\ ReviewItemsOf(k) # {}
              /\ cvkPc = "done" =>
                    /\ RejectionsOf(k) # {}
                    /\ \E i \in 1..Len(cvkResult.humanReviewRequired) :
                          cvkResult.humanReviewRequired[i].inputId = k

\* a returned batch with an input of future timestamp whose level alone
\* would not have asked for a review
C24_Witness ==
    /\ cvkPc = "done"
    /\ \E k \in 1..Len(results) :
        /\ FutureTimestamp(k)
        /\ results[k].verificationLevel < 7
        /\ results[k].rejected
        /\ ReviewItemsOf(k) # {}

CriticalAnomalies(k) == Cardinality({a \in AnomaliesOf(k) : a.severity = "critical"})

\* C25: the priority of a human-review item is 10 for a level >= 9, else 8
\* for a level >= 7 (5 below that), plus 2 for each critical anomaly and at
\* most 10; its deadline is 24 hours after its creation for a priority >= 9,
\* 72 hours for a priority >= 7 and 7 days otherwise.
C25_PriorityAndDeadline ==
    \A i \in 1..Len(reviewItems) :
        LET k == reviewItems[i].inputId
            level == results[k].verificationLevel
            base == IF level >= 9 THEN 10 ELSE IF level >= 7 THEN 8 ELSE 5
            priority == reviewItems[i].priority
        IN  /\ priority = Min(10, base + 2 * CriticalAnomalies(k))
            /\ reviewItems[i].deadline =
                  (IF priority >= 9 THEN 24
                   ELSE IF priority >= 7 THEN 72
                   ELSE 7 * 24)

\* a batch with an urgent item and a standard one
C25_Witness ==
    /\ cvkPc = "done"
    /\ \E i \in 1..Len(reviewItems) :
          /\ results[reviewItems[i].inputId].verificationLevel = 9
          /\ reviewItems[i].priority = 10
          /\ reviewItems[i].deadline = 24
    /\ \E i \in 1..Len(reviewItems) :
          /\ results[reviewItems[i].inputId].verificationLevel < 7
          /\ reviewItems[i].priority = 5
          /\ reviewItems[i].deadline = 168

\* C29: isNeeded is true for every input and an input that is real and true
\* has confidence >= 50, so every rejected input is categorized not_real or
\* not_true; not_needed and insufficient_verification never occur.
C29_RejectionCategories ==
    /\ \A k \in 1..Len(results) :
          /\ results[k].isNeeded
          /\ (results[k].isReal /\ results[k].isTrue)
                => FracGeq(results[k].confidence, 50)
          /\ results[k].rejected
                => categorizeRejection(results[k]) \in {"not_real", "not_true"}
    /\ cvkPc = "done" =>
          \A i \in 1..Len(cvkResult.rejectedInputs) :
              cvkResult.rejectedInputs[i].category \in {"not_real", "not_true"}

\* a returned batch with a rejected input whose confidence is below 50 and
\* whose category is nevertheless one of the two
C29_Witness ==
    /\ cvkPc = "done"
    /\ \E i \in 1..Len(cvkResult.rejectedInputs) :
          /\ FracLess(cvkResult.rejectedInputs[i].confidence, 50)
          /\ cvkResult.rejectedInputs[i].category \in {"not_real", "not_true"}
          /\ results[cvkResult.rejectedInputs[i].inputId].isNeeded

\* ------------------------------------------------------------------------
\* Properties of processCase: the fragments handed from the verifier to the
\* compressor
\* ------------------------------------------------------------------------
\* C30: every fragment produced by the verifier has verificationLevel 9 or
\* 10, every accepted input has a human-review item, and in processCase the
\* gate of the compressor keeps every fragment of the verifier: the number
\* of components created is the number of verified fragments.
C30_VerifierFragmentsPassGate ==
    /\ \A k \in 1..Len(results) :
          ~results[k].rejected =>
              /\ results[k].fragment.verificationLevel \in {9, 10}
              /\ ReviewItemsOf(k) # {}
    /\ cvkPc = "done" =>
          /\ \A i \in 1..Len(cvkResult.verifiedFragments) :
                cvkResult.verifiedFragments[i].verificationLevel \in {9, 10}
          /\ \A k \in 1..Len(inputs) :
                FragmentsOf(k) # {} =>
                    \E i \in 1..Len(cvkResult.humanReviewRequired) :
                        cvkResult.humanReviewRequired[i].inputId = k
    /\ (casePc = "jigsaw" /\ Compressed) =>
          /\ verifiedFragments = fragments
          /\ Len(components) = Len(cvkResult.verifiedFragments)
    /\ (casePc \in {"jigsaw", "done"} /\ pc = "done" /\ result.returned) =>
          result.componentsCreated = Len(cvkResult.verifiedFragments)

\* a case with two accepted inputs, one of level 9 and one of level 10,
\* both turned into components
C30_Witness ==
    /\ casePc = "done"
    /\ Len(cvkResult.verifiedFragments) = 2
    /\ cvkResult.verifiedFragments[1].verificationLevel = 9
    /\ cvkResult.verifiedFragments[2].verificationLevel = 10
    /\ result.componentsCreated = 2
    /\ Len(cvkResult.humanReviewRequired) = 2

=============================================================================
